---- MODULE Spec2Model ----
(***************************************************************************)
(* sf-version-watch (main.go): one check-and-report cycle.  main validates *)
(* the -instance and -version flags, parses the instance list, starts one  *)
(* compareReleaseNumbers goroutine per instance, starts a goroutine that   *)
(* waits on the WaitGroup and closes the results channel, and drains the   *)
(* channel in processResults; the verdict becomes the exit code.           *)
(*                                                                         *)
(* Go strings are modelled as sequences of one-character strings, so that  *)
(* fmt.Sprintf is concatenation and strings.Contains, strings.Split and    *)
(* strings.TrimSpace are computed on the characters.                       *)
(***************************************************************************)
EXTENDS Integers, Sequences, FiniteSets, TLC

VARIABLES
    pc,            \* position of main: validate, parse, make, spawn, supervise, collect, returned, exit
    instanceFlag,  \* *instanceFlag after flag.Parse
    versionFlag,   \* *versionFlag after flag.Parse
    instances,     \* the slice returned by parseInstances
    next,          \* index of the next instance of the range loop of main
    cpc,           \* position of each compareReleaseNumbers goroutine
    resp,          \* what http.Get gave each comparator
    sentCnt,       \* number of sends each comparator has performed
    wg,            \* the WaitGroup counter
    results,       \* the buffer of the results channel
    capacity,      \* the capacity of the results channel
    closed,        \* whether the results channel is closed
    closeCount,    \* number of close(results) calls performed
    spc,           \* position of the supervisory goroutine
    exitHealthy,   \* the local of processResults
    logged,        \* the messages handed to slog.Debug, in order
    fetches,       \* number of http.Get calls issued
    exitCode       \* the process exit status, meaningful when pc = "exit"

vars ==
    <<pc, instanceFlag, versionFlag, instances, next, cpc, resp, sentCnt, wg,
      results, capacity, closed, closeCount, spc, exitHealthy, logged,
      fetches, exitCode>>

(***************************************************************************)
(* Bounds of the model.                                                    *)
(***************************************************************************)
\* Largest number of instances of a command line the main specification tries.
MaxInstances == 2

\* Longest raw -instance string the parsing specification enumerates.
MaxLen == 5

(***************************************************************************)
(* String constants of the program.                                        *)
(***************************************************************************)
UrlPrefix ==
    <<"h", "t", "t", "p", "s", ":", "/", "/", "s", "t", "a", "t", "u", "s",
      ".", "s", "a", "l", "e", "s", "f", "o", "r", "c", "e", ".", "c", "o",
      "m", "/", "a", "p", "i", "/", "i", "n", "s", "t", "a", "n", "c", "e",
      "s", "/">>

UrlSuffix ==
    <<"/", "s", "t", "a", "t", "u", "s", "/", "p", "r", "e", "v", "i", "e",
      "w", "?", "l", "o", "c", "a", "l", "e", "=", "e", "n">>

FmtFetchFailed ==
    <<"f", "a", "i", "l", "e", "d", " ", "t", "o", " ", "f", "e", "t", "c",
      "h", " ", "s", "t", "a", "t", "u", "s", ":", " ">>

FmtNonOK ==
    <<"A", "P", "I", " ", "r", "e", "t", "u", "r", "n", "e", "d", " ", "n",
      "o", "n", "-", "O", "K", " ", "s", "t", "a", "t", "u", "s", ":", " ">>

FmtDecodeFailed ==
    <<"f", "a", "i", "l", "e", "d", " ", "t", "o", " ", "d", "e", "c", "o",
      "d", "e", " ", "r", "e", "s", "p", "o", "n", "s", "e", ":", " ">>

FmtErrorFetching ==
    <<"E", "r", "r", "o", "r", " ", "f", "e", "t", "c", "h", "i", "n", "g",
      " ", "s", "t", "a", "t", "u", "s", " ", "f", "o", "r", " ", "i", "n",
      "s", "t", "a", "n", "c", "e", " ">>

FmtMismatch ==
    <<"R", "e", "l", "e", "a", "s", "e", " ", "n", "u", "m", "b", "e", "r",
      " ", "m", "i", "s", "m", "a", "t", "c", "h", " ", "f", "o", "r", " ",
      "i", "n", "s", "t", "a", "n", "c", "e", " ">>

FmtExpected ==
    <<":", " ", "e", "x", "p", "e", "c", "t", "e", "d", " ">>

FmtGot ==
    <<",", " ", "g", "o", "t", " ">>

FmtMatches ==
    <<"R", "e", "l", "e", "a", "s", "e", " ", "n", "u", "m", "b", "e", "r",
      " ", "m", "a", "t", "c", "h", "e", "s", " ", "f", "o", "r", " ", "i",
      "n", "s", "t", "a", "n", "c", "e", " ">>

ColonSpace ==
    <<":", " ">>

MismatchMarker ==
    <<"m", "i", "s", "m", "a", "t", "c", "h">>

\* http.StatusOK
StatusOK == 200

(***************************************************************************)
(* What the network and the command line can supply.                       *)
(***************************************************************************)
GetOp ==
    <<"G", "e", "t", " ", "\"">>

QuoteColon ==
    <<"\"", ":", " ">>

ConnRefused ==
    <<"d", "i", "a", "l", " ", "t", "c", "p", ":", " ", "c", "o", "n", "n",
      "e", "c", "t", "i", "o", "n", " ", "r", "e", "f", "u", "s", "e", "d">>

JsonSyntaxError ==
    <<"i", "n", "v", "a", "l", "i", "d", " ", "c", "h", "a", "r", "a", "c",
      "t", "e", "r", " ", "'", "<", "'", " ", "l", "o", "o", "k", "i", "n",
      "g", " ", "f", "o", "r", " ", "b", "e", "g", "i", "n", "n", "i", "n",
      "g", " ", "o", "f", " ", "v", "a", "l", "u", "e">>

Status200 ==
    <<"2", "0", "0", " ", "O", "K">>

Status201 ==
    <<"2", "0", "1", " ", "C", "r", "e", "a", "t", "e", "d">>

Status503 ==
    <<"5", "0", "3", " ", "S", "e", "r", "v", "i", "c", "e", " ", "U", "n",
      "a", "v", "a", "i", "l", "a", "b", "l", "e">>

V1 ==
    <<"v", "1">>

V2 ==
    <<"v", "2">>

FlagBlank ==
    <<" ", ",", " ">>

FlagOne ==
    <<"N", "A", "1">>

FlagTwo ==
    <<"N", "A", "1", ",", " ", "C", "S", "2">>

FlagThree ==
    <<"N", "A", "1", ",", "C", "S", "2", " ", ",", "E", "U", "3">>

FlagMarked ==
    <<"m", "i", "s", "m", "a", "t", "c", "h">>

FlagSpecExample ==
    <<"a", ",", " ", ",", "b", ",", ",", "c", " ">>

\* The command lines the main specification tries; a line is tried when it
\* names at most MaxInstances instances.
FlagPool ==
    {<<>>, FlagBlank, FlagOne, FlagTwo, FlagThree, FlagMarked}

\* The -version values tried.
VersionFlags == {<<>>, V1}

\* Characters of the raw -instance strings the parsing specification enumerates.
ParseAlphabet == {"a", "b", ",", " ", "\t"}

(***************************************************************************)
(* Library functions, computed on the characters.                          *)
(***************************************************************************)
\* strings.Contains
Contains(s, substr) ==
    \E i \in 0..(Len(s) - Len(substr)) :
        SubSeq(s, i + 1, i + Len(substr)) = substr

\* strings.Split with a one-character separator: n separators give n+1 pieces.
RECURSIVE Split(_, _)
Split(s, sep) ==
    IF \E i \in 1..Len(s) : s[i] = sep
    THEN LET i == CHOOSE j \in 1..Len(s) :
                      /\ s[j] = sep
                      /\ \A k \in 1..(j - 1) : s[k] # sep
         IN <<SubSeq(s, 1, i - 1)>> \o Split(SubSeq(s, i + 1, Len(s)), sep)
    ELSE <<s>>

\* unicode.IsSpace, on the characters the model uses
IsSpace(c) == c \in {" ", "\t", "\n", "\r"}

RECURSIVE TrimLeft(_)
TrimLeft(s) ==
    IF s # <<>> /\ IsSpace(Head(s)) THEN TrimLeft(Tail(s)) ELSE s

RECURSIVE TrimRight(_)
TrimRight(s) ==
    IF s # <<>> /\ IsSpace(s[Len(s)])
    THEN TrimRight(SubSeq(s, 1, Len(s) - 1))
    ELSE s

\* TrimSpace with the trailing white space left in place.
TrimSpaceLeftOnly(s) == TrimLeft(s)

\* strings.TrimSpace
TrimSpace(s) == TrimRight(TrimLeft(s))

(***************************************************************************)
(* parseInstances and filterEmptyStrings.                                  *)
(***************************************************************************)
\* The test of the loop body of filterEmptyStrings.
KeepPiece(trimmed) == trimmed # <<>>

RECURSIVE filterEmptyStrings(_)
filterEmptyStrings(slice) ==
    IF slice = <<>>
    THEN <<>>
    ELSE LET trimmed == TrimSpace(Head(slice))
         IN (IF KeepPiece(trimmed) THEN <<trimmed>> ELSE <<>>)
                \o filterEmptyStrings(Tail(slice))

parseInstances(flag) == filterEmptyStrings(Split(flag, ","))

\* The command lines of the main specification.
InstanceFlags ==
    {f \in FlagPool : Len(parseInstances(f)) <= MaxInstances}

(***************************************************************************)
(* fetchStatus.  The response of the remote side is an input: a transport  *)
(* failure, or a status line and a body; a body is malformed, or a JSON    *)
(* object with or without the releaseNumber field.                         *)
(***************************************************************************)
TransportFailure ==
    [transportErr |-> TRUE, status |-> 0, statusText |-> <<>>,
     wellFormed |-> FALSE, hasField |-> FALSE, releaseNumber |-> <<>>]

HttpResponse(status, statusText, wellFormed, hasField, releaseNumber) ==
    [transportErr |-> FALSE, status |-> status, statusText |-> statusText,
     wellFormed |-> wellFormed, hasField |-> hasField,
     releaseNumber |-> releaseNumber]

Responses ==
    { TransportFailure,
      HttpResponse(503, Status503, FALSE, FALSE, <<>>),
      HttpResponse(200, Status200, FALSE, FALSE, <<>>),
      HttpResponse(200, Status200, TRUE, FALSE, <<>>),
      HttpResponse(200, Status200, TRUE, TRUE, V1),
      HttpResponse(200, Status200, TRUE, TRUE, V2),
      HttpResponse(201, Status201, TRUE, TRUE, V1) }

\* The value of resp before http.Get has returned.
NoResponse == TransportFailure

\* fmt.Sprintf of the request URL
RequestUrl(instance) == UrlPrefix \o instance \o UrlSuffix

\* The text of the *url.Error http.Get returns: Get "<url>": <cause>
GetErrorText(instance) ==
    GetOp \o RequestUrl(instance) \o QuoteColon \o ConnRefused

\* The status test accepting every 2xx code.
StatusAccepted2xx(status) == status \in 200..299

\* The test of the status code.
StatusAccepted(status) == status = StatusOK

\* json.Decoder.Decode into MinimalAPIResponse: a syntax error fails; a field
\* the object lacks is left at its zero value, the empty string.
DecodeFails(r) == ~r.wellFormed

DecodedReleaseNumber(r) == IF r.hasField THEN r.releaseNumber ELSE <<>>

\* fetchStatus(instance) given the response r: failed, and the value or the
\* error text.
fetchStatus(instance, r) ==
    IF r.transportErr
    THEN [failed |-> TRUE, val |-> <<>>,
          err |-> FmtFetchFailed \o GetErrorText(instance)]
    ELSE IF ~StatusAccepted(r.status)
    THEN [failed |-> TRUE, val |-> <<>>, err |-> FmtNonOK \o r.statusText]
    ELSE IF DecodeFails(r)
    THEN [failed |-> TRUE, val |-> <<>>,
          err |-> FmtDecodeFailed \o JsonSyntaxError]
    ELSE [failed |-> FALSE, val |-> DecodedReleaseNumber(r), err |-> <<>>]

(***************************************************************************)
(* compareReleaseNumbers: the messages it sends, in order, on the path the *)
(* response selects.                                                       *)
(***************************************************************************)
ErrorMessage(instance, err) ==
    FmtErrorFetching \o instance \o ColonSpace \o err

MismatchMessage(instance, expectedVersion, releaseNumber) ==
    FmtMismatch \o instance \o FmtExpected \o expectedVersion
        \o FmtGot \o releaseNumber

MatchMessage(instance, releaseNumber) ==
    FmtMatches \o instance \o ColonSpace \o releaseNumber

\* compareReleaseNumbers returning on a fetch error without a send.
compareReleaseNumbersSilentError(instance, expectedVersion, r) ==
    LET f == fetchStatus(instance, r)
    IN IF f.failed
       THEN <<>>
       ELSE IF f.val # expectedVersion
       THEN <<MismatchMessage(instance, expectedVersion, f.val)>>
       ELSE <<MatchMessage(instance, f.val)>>

\* compareReleaseNumbers sending the mismatch message and then falling
\* through to the send of the match message.
compareReleaseNumbersFallThrough(instance, expectedVersion, r) ==
    LET f == fetchStatus(instance, r)
    IN IF f.failed
       THEN <<ErrorMessage(instance, f.err)>>
       ELSE IF f.val # expectedVersion
       THEN <<MismatchMessage(instance, expectedVersion, f.val),
              MatchMessage(instance, f.val)>>
       ELSE <<MatchMessage(instance, f.val)>>

compareReleaseNumbers(instance, expectedVersion, r) ==
    LET f == fetchStatus(instance, r)
    IN IF f.failed
       THEN <<ErrorMessage(instance, f.err)>>
       ELSE IF f.val # expectedVersion
       THEN <<MismatchMessage(instance, expectedVersion, f.val)>>
       ELSE <<MatchMessage(instance, f.val)>>

(***************************************************************************)
(* processResults: the body of its loop, and the mapping of its result to  *)
(* the exit status.                                                        *)
(***************************************************************************)
IsMismatch(result) == Contains(result, MismatchMarker)

\* The loop body assigning the verdict of the last message read.
processResultsStepLastWins(healthy, result) == ~IsMismatch(result)

processResultsStep(healthy, result) ==
    IF IsMismatch(result) THEN FALSE ELSE healthy

\* main without its os.Exit(1).
ExitStatusAlwaysZero(healthy) == 0

ExitStatus(healthy) == IF ~healthy THEN 1 ELSE 0

(***************************************************************************)
(* main, up to the start of the goroutines.                                *)
(***************************************************************************)
\* The flag test with "and" for "or".
FlagsMissingBoth(instFlag, verFlag) == instFlag = <<>> /\ verFlag = <<>>

FlagsMissing(instFlag, verFlag) == instFlag = <<>> \/ verFlag = <<>>

\* A channel one slot short.
ChanCapacityShort(n) == n - 1

\* make(chan string, len(instances))
ChanCapacity(n) == n

\* A wait that returns with one comparator outstanding.
WaitReturnsEarly(counter) == counter <= 1

\* wg.Wait returns when the counter is zero.
WaitReturns(counter) == counter = 0

N == Len(instances)

\* The goroutines exist once main has made the channel.
Comparators == DOMAIN cpc

Running == pc # "exit"

Messages(i) == compareReleaseNumbers(instances[i], versionFlag, resp[i])

\* main.go 59-61: flag.Parse has accepted the command line and returned; the
\* two flags hold what it gave, or the empty default.
Init ==
    /\ pc = "validate"
    /\ instanceFlag \in InstanceFlags
    /\ versionFlag \in VersionFlags
    /\ instances = <<>>
    /\ next = 1
    /\ cpc = <<>>
    /\ resp = <<>>
    /\ sentCnt = <<>>
    /\ wg = 0
    /\ results = <<>>
    /\ capacity = 0
    /\ closed = FALSE
    /\ closeCount = 0
    /\ spc = "unstarted"
    /\ exitHealthy = TRUE
    /\ logged = <<>>
    /\ fetches = 0
    /\ exitCode = 0

\* os.Exit(code): the process and all its goroutines stop.
Exit(code) ==
    /\ pc' = "exit"
    /\ exitCode' = code

\* A run-time panic (send on a closed channel, close of a closed channel,
\* negative WaitGroup counter) ends the process with status 2.
Panic == Exit(2)

\* main.go 63-67
ValidateFlags ==
    /\ pc = "validate"
    /\ IF FlagsMissing(instanceFlag, versionFlag)
       THEN Exit(1)
       ELSE pc' = "parse" /\ UNCHANGED exitCode
    /\ UNCHANGED <<instanceFlag, versionFlag, instances, next, cpc, resp,
                   sentCnt, wg, results, capacity, closed, closeCount, spc,
                   exitHealthy, logged, fetches>>

\* main.go 69-73
ParseArgs ==
    /\ pc = "parse"
    /\ instances' = parseInstances(instanceFlag)
    /\ IF Len(instances') = 0
       THEN Exit(1)
       ELSE pc' = "make" /\ UNCHANGED exitCode
    /\ UNCHANGED <<instanceFlag, versionFlag, next, cpc, resp, sentCnt, wg,
                   results, capacity, closed, closeCount, spc, exitHealthy,
                   logged, fetches>>

\* main.go 75-76
MakeResults ==
    /\ pc = "make"
    /\ wg' = 0
    /\ results' = <<>>
    /\ capacity' = ChanCapacity(N)
    /\ cpc' = [i \in 1..N |-> "unstarted"]
    /\ resp' = [i \in 1..N |-> NoResponse]
    /\ sentCnt' = [i \in 1..N |-> 0]
    /\ next' = 1
    /\ pc' = "spawn"
    /\ UNCHANGED <<instanceFlag, versionFlag, instances, closed, closeCount,
                   spc, exitHealthy, logged, fetches, exitCode>>

\* main.go 78-81: one iteration of the range loop
SpawnComparator ==
    /\ pc = "spawn"
    /\ next <= N
    /\ wg' = wg + 1
    /\ cpc' = [cpc EXCEPT ![next] = "start"]
    /\ next' = next + 1
    /\ pc' = IF next = N THEN "supervise" ELSE "spawn"
    /\ UNCHANGED <<instanceFlag, versionFlag, instances, resp, sentCnt,
                   results, capacity, closed, closeCount, spc, exitHealthy,
                   logged, fetches, exitCode>>

\* main.go 83-86: the go statement; main goes on to call processResults,
\* whose first statement sets exitHealthy (main.go 112)
SpawnSupervisor ==
    /\ pc = "supervise"
    /\ spc' = "wait"
    /\ exitHealthy' = TRUE
    /\ pc' = "collect"
    /\ UNCHANGED <<instanceFlag, versionFlag, instances, next, cpc, resp,
                   sentCnt, wg, results, capacity, closed, closeCount, logged,
                   fetches, exitCode>>

(***************************************************************************)
(* A compareReleaseNumbers goroutine.                                      *)
(***************************************************************************)
\* main.go 21-22: http.Get is called
FetchIssue(i) ==
    /\ Running
    /\ cpc[i] = "start"
    /\ cpc' = [cpc EXCEPT ![i] = "fetching"]
    /\ fetches' = fetches + 1
    /\ UNCHANGED <<pc, instanceFlag, versionFlag, instances, next, resp,
                   sentCnt, wg, results, capacity, closed, closeCount, spc,
                   exitHealthy, logged, exitCode>>

\* main.go 22-37, 44: http.Get returns and fetchStatus runs to its return
FetchReturn(i) ==
    /\ Running
    /\ cpc[i] = "fetching"
    /\ \E r \in Responses : resp' = [resp EXCEPT ![i] = r]
    /\ cpc' = [cpc EXCEPT ![i] = "send"]
    /\ UNCHANGED <<pc, instanceFlag, versionFlag, instances, next, sentCnt,
                   wg, results, capacity, closed, closeCount, spc,
                   exitHealthy, logged, fetches, exitCode>>

\* main.go 46, 51, 53: results <- message.  The send waits while the buffer
\* is full and panics when the channel is closed.
Send(i) ==
    /\ Running
    /\ cpc[i] = "send"
    /\ sentCnt[i] < Len(Messages(i))
    /\ IF closed
       THEN /\ Panic
            /\ UNCHANGED <<results, sentCnt>>
       ELSE /\ Len(results) < capacity
            /\ results' = Append(results, Messages(i)[sentCnt[i] + 1])
            /\ sentCnt' = [sentCnt EXCEPT ![i] = @ + 1]
            /\ UNCHANGED <<pc, exitCode>>
    /\ UNCHANGED <<instanceFlag, versionFlag, instances, next, cpc, resp, wg,
                   capacity, closed, closeCount, spc, exitHealthy, logged,
                   fetches>>

\* main.go 42, 47, 55: the function returns and the deferred wg.Done runs
Done(i) ==
    /\ Running
    /\ cpc[i] = "send"
    /\ sentCnt[i] = Len(Messages(i))
    /\ cpc' = [cpc EXCEPT ![i] = "done"]
    /\ IF wg = 0
       THEN Panic /\ UNCHANGED wg
       ELSE wg' = wg - 1 /\ UNCHANGED <<pc, exitCode>>
    /\ UNCHANGED <<instanceFlag, versionFlag, instances, next, resp, sentCnt,
                   results, capacity, closed, closeCount, spc, exitHealthy,
                   logged, fetches>>

(***************************************************************************)
(* The supervisory goroutine.                                              *)
(***************************************************************************)
\* main.go 84
SupervisorWait ==
    /\ Running
    /\ spc = "wait"
    /\ WaitReturns(wg)
    /\ spc' = "close"
    /\ UNCHANGED <<pc, instanceFlag, versionFlag, instances, next, cpc, resp,
                   sentCnt, wg, results, capacity, closed, closeCount,
                   exitHealthy, logged, fetches, exitCode>>

\* The supervisory goroutine returning after the wait without the close.
SupervisorCloseForgotten ==
    /\ Running
    /\ spc = "close"
    /\ spc' = "done"
    /\ UNCHANGED <<pc, instanceFlag, versionFlag, instances, next, cpc, resp,
                   sentCnt, wg, results, capacity, closed, closeCount,
                   exitHealthy, logged, fetches, exitCode>>

\* main.go 85
SupervisorClose ==
    /\ Running
    /\ spc = "close"
    /\ spc' = "done"
    /\ IF closed
       THEN Panic /\ UNCHANGED <<closed, closeCount>>
       ELSE /\ closed' = TRUE
            /\ closeCount' = closeCount + 1
            /\ UNCHANGED <<pc, exitCode>>
    /\ UNCHANGED <<instanceFlag, versionFlag, instances, next, cpc, resp,
                   sentCnt, wg, results, capacity, exitHealthy, logged,
                   fetches>>

(***************************************************************************)
(* processResults, run by main.                                            *)
(***************************************************************************)
\* A receive that takes the newest buffered message.
ReceiveNewestFirst ==
    /\ pc = "collect"
    /\ results # <<>>
    /\ logged' = Append(logged, results[Len(results)])
    /\ exitHealthy' = processResultsStep(exitHealthy, results[Len(results)])
    /\ results' = SubSeq(results, 1, Len(results) - 1)
    /\ UNCHANGED <<pc, instanceFlag, versionFlag, instances, next, cpc, resp,
                   sentCnt, wg, capacity, closed, closeCount, spc, fetches,
                   exitCode>>

\* main.go 113-117: one iteration of the range over the channel
Receive ==
    /\ pc = "collect"
    /\ results # <<>>
    /\ logged' = Append(logged, Head(results))
    /\ exitHealthy' = processResultsStep(exitHealthy, Head(results))
    /\ results' = Tail(results)
    /\ UNCHANGED <<pc, instanceFlag, versionFlag, instances, next, cpc, resp,
                   sentCnt, wg, capacity, closed, closeCount, spc, fetches,
                   exitCode>>

\* main.go 113, 119: the range ends on a closed and drained channel
RangeEnds ==
    /\ pc = "collect"
    /\ results = <<>>
    /\ closed
    /\ pc' = "returned"
    /\ UNCHANGED <<instanceFlag, versionFlag, instances, next, cpc, resp,
                   sentCnt, wg, results, capacity, closed, closeCount, spc,
                   exitHealthy, logged, fetches, exitCode>>

\* main.go 88-91
MainExits ==
    /\ pc = "returned"
    /\ Exit(ExitStatus(exitHealthy))
    /\ UNCHANGED <<instanceFlag, versionFlag, instances, next, cpc, resp,
                   sentCnt, wg, results, capacity, closed, closeCount, spc,
                   exitHealthy, logged, fetches>>

Next ==
    \/ ValidateFlags
    \/ ParseArgs
    \/ MakeResults
    \/ SpawnComparator
    \/ SpawnSupervisor
    \/ \E i \in Comparators : FetchIssue(i)
    \/ \E i \in Comparators : FetchReturn(i)
    \/ \E i \in Comparators : Send(i)
    \/ \E i \in Comparators : Done(i)
    \/ SupervisorWait
    \/ SupervisorClose
    \/ Receive
    \/ RangeEnds
    \/ MainExits

Spec == Init /\ [][Next]_vars

(***************************************************************************)
(* The parsing specification: parseInstances applied, by main's own step,  *)
(* to every raw string of at most MaxLen characters and to the example of  *)
(* the specification.                                                      *)
(***************************************************************************)
RawFlags ==
    UNION {[1..n -> ParseAlphabet] : n \in 0..MaxLen} \cup {FlagSpecExample}

InitParse ==
    /\ pc = "parse"
    /\ instanceFlag \in RawFlags
    /\ versionFlag = V1
    /\ instances = <<>>
    /\ next = 1
    /\ cpc = <<>>
    /\ resp = <<>>
    /\ sentCnt = <<>>
    /\ wg = 0
    /\ results = <<>>
    /\ capacity = 0
    /\ closed = FALSE
    /\ closeCount = 0
    /\ spc = "unstarted"
    /\ exitHealthy = TRUE
    /\ logged = <<>>
    /\ fetches = 0
    /\ exitCode = 0

NextParse == ParseArgs

SpecParse == InitParse /\ [][NextParse]_vars

(***************************************************************************)
(* Vocabulary of the properties, stated on the inputs: the command line    *)
(* and the responses.                                                      *)
(***************************************************************************)
\* main has started the goroutines and reached processResults.
Dispatched == spc # "unstarted"

\* The response of instance i has arrived.
Returned(i) == cpc[i] \in {"send", "done"}

\* The fetch of instance i succeeded and gave the release number v.
RespGives(i, v) ==
    /\ Returned(i)
    /\ ~resp[i].transportErr
    /\ resp[i].status = 200
    /\ resp[i].wellFormed
    /\ resp[i].hasField
    /\ resp[i].releaseNumber = v

RespMatches(i) == RespGives(i, versionFlag)

RespDiffers(i) ==
    /\ Returned(i)
    /\ ~resp[i].transportErr
    /\ resp[i].status = 200
    /\ resp[i].wellFormed
    /\ resp[i].hasField
    /\ resp[i].releaseNumber # versionFlag

\* Connection error, non-OK status or malformed body.
RespFails(i) ==
    /\ Returned(i)
    /\ \/ resp[i].transportErr
       \/ resp[i].status # 200
       \/ ~resp[i].wellFormed

\* A 200 response whose body is a JSON object without releaseNumber.
RespLacksField(i) ==
    /\ Returned(i)
    /\ ~resp[i].transportErr
    /\ resp[i].status = 200
    /\ resp[i].wellFormed
    /\ ~resp[i].hasField

RECURSIVE SumTo(_, _)
SumTo(f, n) == IF n = 0 THEN 0 ELSE f[n] + SumTo(f, n - 1)

\* Messages sent to the channel so far.
TotalSent == SumTo(sentCnt, Len(sentCnt))

\* The flag holds nothing but commas and white space.
NoUsableInstance(flag) ==
    \A k \in 1..Len(flag) : flag[k] = "," \/ IsSpace(flag[k])

\* Some message read by processResults carries the mismatch marker.
MarkerRead ==
    \E k \in 1..Len(logged) :
        \E j \in 1..(Len(logged[k]) - 7) :
            /\ logged[k][j] = "m"
            /\ logged[k][j + 1] = "i"
            /\ logged[k][j + 2] = "s"
            /\ logged[k][j + 3] = "m"
            /\ logged[k][j + 4] = "a"
            /\ logged[k][j + 5] = "t"
            /\ logged[k][j + 6] = "c"
            /\ logged[k][j + 7] = "h"

(***************************************************************************)
(* C1.  Exactly N messages.                                                *)
(***************************************************************************)
\* C1: whenever the results channel is closed, exactly N messages have been
\* sent to it, one by each of the N comparators; and when processResults has
\* seen the closure it has read exactly N messages.
C1_ExactlyNMessages ==
    /\ Len(results) + Len(logged) = TotalSent
    /\ closed =>
          /\ N >= 1
          /\ DOMAIN sentCnt = 1..N
          /\ \A i \in 1..N : sentCnt[i] = 1
          /\ TotalSent = N
    /\ (Dispatched /\ pc \in {"returned", "exit"}) =>
          /\ closed
          /\ Len(logged) = N
          /\ results = <<>>

\* processResults has returned after reading the messages of two comparators,
\* one of which failed to fetch.
C1_Witness ==
    /\ pc = "returned"
    /\ closed
    /\ N = 2
    /\ Len(logged) = 2
    /\ \E i \in 1..N : RespFails(i)
    /\ \E i \in 1..N : RespMatches(i)

(***************************************************************************)
(* C2.  All versions equal gives exit 0.                                   *)
(***************************************************************************)
\* C2: if every instance's fetch succeeds with the expected version, the
\* process exits with code 0, whatever the instance names are.
C2_AllMatchExitsZero ==
    (pc = "exit" /\ Dispatched /\ \A i \in 1..N : RespMatches(i))
        => exitCode = 0

(***************************************************************************)
(* C3.  A version mismatch gives exit 1.                                   *)
(***************************************************************************)
\* C3: in a run that has reached its exit, if some instance's fetch succeeded
\* with a version other than the expected one, processResults returned false
\* and the exit code is 1, whatever the other instances did and in whatever
\* order the messages arrived.
C3_MismatchExitsOne ==
    (pc \in {"returned", "exit"} /\ Dispatched
        /\ \E i \in 1..N : RespDiffers(i))
        => /\ ~exitHealthy
           /\ pc = "exit" => exitCode = 1

\* A run that exited 1 in which the mismatch message was read first and the
\* message of a matching instance after it.
C3_Witness ==
    /\ pc = "exit"
    /\ exitCode = 1
    /\ N = 2
    /\ \E i, j \in 1..N :
          /\ RespDiffers(i)
          /\ RespMatches(j)
          /\ logged = Messages(i) \o Messages(j)

(***************************************************************************)
(* C4.  Fetch failures alone leave the verdict healthy.                    *)
(***************************************************************************)
\* C4: in a run of N instances where each instance either fails to fetch or
\* returns the expected version, N messages are produced and the exit code
\* is 0.
C4_FetchFailureStaysHealthy ==
    (pc = "exit" /\ Dispatched
        /\ \A i \in 1..N : RespFails(i) \/ RespMatches(i))
        => /\ Len(logged) = N
           /\ exitCode = 0

(***************************************************************************)
(* C5.  Invalid arguments: exit 1, no goroutine, no fetch.                 *)
(***************************************************************************)
\* C5: if the instance flag is empty, the version flag is empty, or the
\* instance flag holds no usable instance, then main never gets past its
\* argument checks: no comparator is spawned, no fetch is issued, the next
\* step of main is always possible and the only exit is with code 1.
C5_InvalidArgsExitOne ==
    (instanceFlag = <<>> \/ versionFlag = <<>> \/ NoUsableInstance(instanceFlag))
        => /\ pc \in {"validate", "parse", "exit"}
           /\ pc = "exit" => exitCode = 1
           /\ pc # "exit" => ENABLED (ValidateFlags \/ ParseArgs)
           /\ cpc = <<>>
           /\ wg = 0
           /\ fetches = 0
           /\ spc = "unstarted"

\* The run with -instance " , " and a version: both flags are non-empty, no
\* instance is usable, and the process has exited 1.
C5_Witness ==
    /\ pc = "exit"
    /\ exitCode = 1
    /\ instanceFlag = FlagBlank
    /\ versionFlag = V1
    /\ fetches = 0

Cuts(s) == {0} \cup {i \in 1..Len(s) : s[i] = ","} \cup {Len(s) + 1}

\* The k-th smallest element of a set of numbers.
NthOf(S, k) == CHOOSE c \in S : Cardinality({d \in S : d < c}) = k - 1

\* The k-th comma-separated piece of s.
PieceAt(s, k) ==
    SubSeq(s, NthOf(Cuts(s), k) + 1, NthOf(Cuts(s), k + 1) - 1)

\* The positions of p that hold no white space.
Inked(p) == {j \in 1..Len(p) : p[j] \notin {" ", "\t", "\n", "\r"}}

\* p without its surrounding white space.
Core(p) ==
    IF Inked(p) = {}
    THEN <<>>
    ELSE SubSeq(p, CHOOSE a \in Inked(p) : \A b \in Inked(p) : a <= b,
                   CHOOSE a \in Inked(p) : \A b \in Inked(p) : a >= b)

\* The pieces of s that are non-empty after trimming, trimmed, in order.
UsablePieces(s) ==
    LET kept == {k \in 1..(Cardinality(Cuts(s)) - 1) : Inked(PieceAt(s, k)) # {}}
    IN [j \in 1..Cardinality(kept) |-> Core(PieceAt(s, NthOf(kept, j)))]

\* C7: parseInstances returns exactly the trimmed pieces that are non-empty
\* after trimming, in their original order, duplicates kept: no entry is
\* empty, begins or ends with white space or holds a comma, and no non-empty
\* piece is dropped.
C7_ParseInstances ==
    pc # "parse" =>
        /\ instances = UsablePieces(instanceFlag)
        /\ Len(instances) =
              Cardinality({k \in 1..(Cardinality(Cuts(instanceFlag)) - 1) :
                              Inked(PieceAt(instanceFlag, k)) # {}})
        /\ \A k \in 1..Len(instances) :
              /\ instances[k] # <<>>
              /\ Inked(instances[k]) # {}
              /\ 1 \in Inked(instances[k])
              /\ Len(instances[k]) \in Inked(instances[k])
              /\ \A j \in 1..Len(instances[k]) : instances[k][j] # ","

\* The example of the specification: "a, ,b,,c " has been parsed to a, b, c.
C7_Witness ==
    /\ pc # "parse"
    /\ instanceFlag = FlagSpecExample
    /\ instances = << <<"a">>, <<"b">>, <<"c">> >>

(***************************************************************************)
(* C8.  Bodies that are malformed or lack releaseNumber.                   *)
(***************************************************************************)
\* A 200 response whose body is not JSON.
RespMalformed(i) ==
    /\ Returned(i)
    /\ ~resp[i].transportErr
    /\ resp[i].status = 200
    /\ ~resp[i].wellFormed

\* The message begins with the tag of a fetch failure.
ErrorTagged(m) == Len(m) >= 5 /\ SubSeq(m, 1, 5) = <<"E", "r", "r", "o", "r">>

\* C8, on the runs in which no instance name contains "mismatch": an instance
\* whose body is malformed JSON or lacks releaseNumber gets one message, that
\* message is error-tagged, and if every other instance matched or failed to
\* fetch the exit code is 0.
C8_BadBodyIsDecodeError ==
    (/\ pc = "exit"
     /\ Dispatched
     /\ \A i \in 1..N : ~Contains(instances[i], MismatchMarker))
        => \A i \in 1..N :
              (RespMalformed(i) \/ RespLacksField(i)) =>
                  /\ sentCnt[i] = 1
                  /\ ErrorTagged(Messages(i)[1])
                  /\ (\A j \in 1..N \ {i} : RespMatches(j) \/ RespFails(j))
                        => exitCode = 0

(***************************************************************************)
(* C9.  The close of the results channel.                                  *)
(***************************************************************************)
\* C9: the results channel is closed at most once, by the supervisory
\* goroutine alone, and only when every one of the N comparators has
\* signalled completion; processResults leaves its loop only on a closed,
\* drained channel.
C9_CloseAfterAllDone ==
    /\ closeCount <= 1
    /\ closed <=> closeCount = 1
    /\ closed <=> spc = "done"
    /\ spc \in {"close", "done"} =>
          /\ N >= 1
          /\ DOMAIN cpc = 1..N
          /\ \A i \in 1..N : cpc[i] = "done"
          /\ wg = 0
    /\ (Dispatched /\ pc \in {"returned", "exit"}) => closed /\ results = <<>>

\* The channel is closed, both comparators are done, and processResults is
\* still draining: one message read, one still buffered.
C9_Witness ==
    /\ closed
    /\ N = 2
    /\ pc = "collect"
    /\ Len(results) = 1
    /\ Len(logged) = 1

(***************************************************************************)
(* C10.  No comparator blocks on its send.                                 *)
(***************************************************************************)
\* C10: the channel's capacity is the instance count N, the buffer never
\* holds more than N messages, and a comparator whose fetch has returned can
\* always take its next step: its send finds the channel open with a free
\* slot, and its completion signal follows.
C10_SendNeverBlocks ==
    /\ (Dispatched \/ pc \in {"spawn", "supervise"}) =>
          (N >= 1 /\ capacity = N)
    /\ Len(results) <= capacity
    /\ \A i \in DOMAIN cpc :
          (Running /\ cpc[i] = "send") =>
              /\ sentCnt[i] = 0 => (~closed /\ Len(results) < capacity)
              /\ ENABLED (Send(i) \/ Done(i))

\* Both comparators have sent and signalled completion while main has not
\* yet started the supervisor or read a message: the buffer holds N messages.
C10_Witness ==
    /\ pc = "supervise"
    /\ N = 2
    /\ Len(results) = N
    /\ logged = <<>>
    /\ \A i \in 1..N : cpc[i] = "done"

(***************************************************************************)
(* C11.  One message and one completion signal per comparator.             *)
(***************************************************************************)
\* The comparators that main has started and that have not yet signalled
\* completion.
Outstanding == {i \in DOMAIN cpc : cpc[i] \in {"start", "fetching", "send"}}

\* C11: on each of its three paths (fetch error, mismatch, match) a
\* comparator sends exactly one message, and it signals completion exactly
\* once, after that send: a comparator that is done has sent one message, no
\* comparator ever sends two, and the WaitGroup counter is the number of
\* comparators started and not yet done.
C11_OneMessageOneSignal ==
    /\ \A i \in DOMAIN cpc :
          /\ sentCnt[i] <= 1
          /\ Returned(i) => Len(Messages(i)) = 1
          /\ cpc[i] = "done" => sentCnt[i] = 1
          /\ cpc[i] \in {"unstarted", "start", "fetching"} => sentCnt[i] = 0
    /\ wg = Cardinality(Outstanding)
    /\ pc = "exit" => exitCode \in {0, 1}

\* Two comparators are done, one by the fetch-error path and one by the
\* mismatch path; each has sent one message and the counter is back at zero.
C11_Witness ==
    /\ N = 2
    /\ DOMAIN cpc = 1..N
    /\ \A i \in 1..N : cpc[i] = "done" /\ sentCnt[i] = 1
    /\ \E i \in 1..N : RespFails(i)
    /\ \E i \in 1..N : RespDiffers(i)
    /\ wg = 0

(***************************************************************************)
(* C12.  The category of a message, read off its text.                     *)
(***************************************************************************)
\* The tag of a fetch failure.
ErrorMarker == <<"E", "r", "r", "o", "r">>

\* C12: the message a comparator has sent contains "mismatch" exactly when
\* its outcome is a version mismatch (the fetched release number, empty when
\* the body has no such field, differs from the expected one), contains
\* "Error" exactly when its fetch failed, and contains neither when the
\* versions match; for every instance name.
C12_CategoryBySubstring ==
    \A i \in DOMAIN cpc :
        (Returned(i) /\ sentCnt[i] = 1) =>
            LET m == Messages(i)[1]
            IN /\ Contains(m, MismatchMarker)
                     <=> (RespDiffers(i) \/ RespLacksField(i))
               /\ Contains(m, ErrorMarker) <=> RespFails(i)
               /\ RespMatches(i) =>
                     (~Contains(m, MismatchMarker) /\ ~Contains(m, ErrorMarker))

(***************************************************************************)
(* C13.  The verdict of processResults.                                    *)
(***************************************************************************)
\* C13: processResults returns only on the closed channel with every message
\* read; its verdict is unhealthy exactly when some message read so far
\* contains "mismatch", wherever that message stood in the stream; and once
\* unhealthy the verdict stays unhealthy.
C13_VerdictByMarker ==
    /\ [](Dispatched => (exitHealthy <=> ~MarkerRead))
    /\ []((Dispatched /\ pc \in {"returned", "exit"}) =>
            (closed /\ results = <<>> /\ Len(logged) = N))
    /\ [][(Dispatched /\ ~exitHealthy) => ~exitHealthy']_vars

\* processResults has returned unhealthy: the marker came with the first of
\* two messages and the second, read after it, did not carry it.
C13_Witness ==
    /\ pc = "returned"
    /\ ~exitHealthy
    /\ Len(logged) = 2
    /\ Contains(logged[1], MismatchMarker)
    /\ ~Contains(logged[2], MismatchMarker)

(***************************************************************************)
(* Scheduling.  The Go scheduler is preemptive and runs every runnable     *)
(* goroutine eventually: each goroutine is weakly fair.  Fairness of a     *)
(* comparator includes that its http.Get returns.                          *)
(***************************************************************************)
MainNext ==
    \/ ValidateFlags
    \/ ParseArgs
    \/ MakeResults
    \/ SpawnComparator
    \/ SpawnSupervisor
    \/ Receive
    \/ RangeEnds
    \/ MainExits

SupervisorNext == SupervisorWait \/ SupervisorClose

ComparatorNext(i) ==
    /\ i \in DOMAIN cpc
    /\ (FetchIssue(i) \/ FetchReturn(i) \/ Send(i) \/ Done(i))

Fairness ==
    /\ WF_vars(MainNext)
    /\ WF_vars(SupervisorNext)
    /\ \A i \in 1..MaxInstances : WF_vars(ComparatorNext(i))

SpecFair == Init /\ [][Next]_vars /\ Fairness

(***************************************************************************)
(* C14.  Termination, and the order of the phases.                         *)
(***************************************************************************)
\* The phases of the process: Init 1, ParseArgs 2, Dispatch 3, Collect 4,
\* Exit 5.
PhaseRank(p) ==
    CASE p = "validate" -> 1
      [] p = "parse" -> 2
      [] p \in {"make", "spawn", "supervise"} -> 3
      [] p \in {"collect", "returned"} -> 4
      [] p = "exit" -> 5

\* Both flags are given and the instance flag holds a usable instance.
ValidArgs ==
    /\ instanceFlag # <<>>
    /\ versionFlag # <<>>
    /\ ~NoUsableInstance(instanceFlag)

\* C14: no phase is ever revisited; with valid arguments the phases are
\* passed one after the other, none skipped; and with valid arguments, under
\* fair scheduling with every fetch returning, the process reaches its exit
\* with code 0 or 1, after every comparator is done, the channel is closed
\* and the drain loop has ended on the empty channel.
C14_TerminatesInPhaseOrder ==
    /\ [][PhaseRank(pc') >= PhaseRank(pc)]_vars
    /\ [][ValidArgs =>
            PhaseRank(pc') \in {PhaseRank(pc), PhaseRank(pc) + 1}]_vars
    /\ ValidArgs =>
          <>(/\ pc = "exit"
             /\ exitCode \in {0, 1}
             /\ closed
             /\ results = <<>>
             /\ Len(logged) = N
             /\ \A i \in DOMAIN cpc : cpc[i] = "done")

\* A run with two instances has passed all phases and exited.
C14_Witness ==
    /\ pc = "exit"
    /\ ValidArgs
    /\ N = 2
    /\ closed
    /\ Len(logged) = 2

(***************************************************************************)
(* C15.  A fetch that has not returned.                                    *)
(***************************************************************************)
\* C15: while the http.Get of some instance has not returned, that comparator
\* has sent nothing and has not signalled completion, nothing but the return
\* of the fetch lets it move, the WaitGroup counter is positive, the
\* supervisor has not passed its wait, the channel is open, processResults
\* has not returned and the process has not exited.  So a fetch that never
\* returns keeps all of this so for ever.
C15_HungFetchBlocksExit ==
    \A i \in DOMAIN cpc :
        cpc[i] = "fetching" =>
            /\ sentCnt[i] = 0
            /\ ~ENABLED (FetchIssue(i) \/ Send(i) \/ Done(i))
            /\ wg >= 1
            /\ spc \in {"unstarted", "wait"}
            /\ ~ENABLED SupervisorNext
            /\ ~closed
            /\ closeCount = 0
            /\ pc \notin {"returned", "exit"}
            /\ ~ENABLED (RangeEnds \/ MainExits)

\* One of two fetches has not returned; the other comparator is done and its
\* message has been read; main and the supervisor can take no step.
C15_Witness ==
    /\ N = 2
    /\ DOMAIN cpc = 1..N
    /\ \E i, j \in 1..N : cpc[i] = "fetching" /\ cpc[j] = "done"
    /\ Len(logged) = 1
    /\ results = <<>>
    /\ pc = "collect"
    /\ spc = "wait"
    /\ ~ENABLED (MainNext \/ SupervisorNext)

(***************************************************************************)
(* C16.  The order of the messages.                                        *)
(***************************************************************************)
\* C16: processResults reads the messages in the order in which they were
\* sent: a send puts the sender's message at the end of the buffer and a
\* read takes the message at its front.  The order of the sends is free: a
\* comparator that holds its message can send it next, whatever its position
\* in the instance list and whatever the others have done, so every order of
\* the instances can be the read order.
C16_ReadOrderIsSendOrder ==
    /\ [][logged' # logged =>
            /\ results # <<>>
            /\ logged' = Append(logged, Head(results))
            /\ results' = Tail(results)]_vars
    /\ [][(results' # results /\ logged' = logged) =>
            \E i \in DOMAIN cpc :
                /\ sentCnt'[i] = sentCnt[i] + 1
                /\ results' = Append(results, Messages(i)[sentCnt[i] + 1])]_vars
    /\ [](\A i \in DOMAIN cpc :
            (Running /\ cpc[i] = "send" /\ sentCnt[i] = 0) => ENABLED Send(i))

\* The messages of two instances have been read in the reverse of the order
\* of the instance list.
C16_Witness ==
    /\ N = 2
    /\ DOMAIN cpc = 1..N
    /\ \A i \in 1..N : cpc[i] = "done"
    /\ Messages(1) # Messages(2)
    /\ logged = Messages(2) \o Messages(1)

(***************************************************************************)
(* C17.  The status test of fetchStatus.                                   *)
(***************************************************************************)
\* The result of fetchStatus for instance i, whose response has arrived.
Fetched(i) == fetchStatus(instances[i], resp[i])

\* C17 as stated: a response whose status is not a 2xx success is an error
\* whose message carries the status text, and for a 2xx response with a
\* well-formed body the fetcher returns the releaseNumber of the body.
C17_Non2xxIsError ==
    \A i \in DOMAIN cpc :
        (Returned(i) /\ ~resp[i].transportErr) =>
            /\ resp[i].status \notin 200..299 =>
                  /\ Fetched(i).failed
                  /\ Contains(Fetched(i).err, resp[i].statusText)
            /\ (/\ resp[i].status \in 200..299
                /\ resp[i].wellFormed
                /\ resp[i].hasField) =>
                  /\ ~Fetched(i).failed
                  /\ Fetched(i).val = resp[i].releaseNumber

\* C17 as amended: a response whose status is not 200 OK, another 2xx code
\* included, is an error whose message carries the status text, and the
\* comparator reports it in an error-tagged message; for a 200 response the
\* body is decoded: a malformed body is an error, otherwise the fetcher
\* returns the releaseNumber of the body, the empty string when the body has
\* no such field.
C17_NonOKIsError ==
    \A i \in DOMAIN cpc :
        (Returned(i) /\ ~resp[i].transportErr) =>
            /\ resp[i].status # 200 =>
                  /\ Fetched(i).failed
                  /\ Contains(Fetched(i).err, resp[i].statusText)
                  /\ ErrorTagged(Messages(i)[1])
                  /\ Contains(Messages(i)[1], resp[i].statusText)
            /\ (resp[i].status = 200 /\ ~resp[i].wellFormed) =>
                  /\ Fetched(i).failed
                  /\ ErrorTagged(Messages(i)[1])
            /\ (resp[i].status = 200 /\ resp[i].wellFormed) =>
                  /\ ~Fetched(i).failed
                  /\ Fetched(i).val =
                        (IF resp[i].hasField THEN resp[i].releaseNumber ELSE <<>>)
                  /\ ~ErrorTagged(Messages(i)[1])

\* A 201 response with a well-formed body holding the expected version has
\* been reported, and read, as a fetch failure carrying "201 Created".
C17_Witness ==
    \E i \in DOMAIN cpc :
        /\ cpc[i] = "done"
        /\ resp[i].status = 201
        /\ resp[i].wellFormed
        /\ resp[i].releaseNumber = versionFlag
        /\ Len(logged) >= 1
        /\ logged[1] = Messages(i)[1]
        /\ ErrorTagged(logged[1])
        /\ Contains(logged[1], Status201)

(***************************************************************************)
(* C18.  No send on a closed channel.                                      *)
(***************************************************************************)
\* C18: a comparator signals completion only after its send, the channel is
\* closed only when every comparator has sent and signalled, so a comparator
\* that still has a message to send never finds the channel closed, and the
\* process never ends by a panic.
C18_NoSendOnClosed ==
    /\ \A i \in DOMAIN cpc :
          /\ cpc[i] = "done" => sentCnt[i] >= 1
          /\ (cpc[i] \in {"unstarted", "start", "fetching"}
                \/ (cpc[i] = "send" /\ sentCnt[i] < Len(Messages(i))))
                => ~closed
    /\ closed =>
          /\ N >= 1
          /\ DOMAIN cpc = 1..N
          /\ \A i \in 1..N : sentCnt[i] = Len(Messages(i)) /\ sentCnt[i] >= 1
    /\ pc = "exit" => exitCode # 2

\* The channel has been closed before processResults read anything: both
\* messages are in the buffer and both comparators are done.
C18_Witness ==
    /\ closed
    /\ N = 2
    /\ pc = "collect"
    /\ logged = <<>>
    /\ Len(results) = 2
    /\ \A i \in 1..N : cpc[i] = "done" /\ sentCnt[i] = 1

(***************************************************************************)
(* C19.  The outcome does not depend on the scheduling.                    *)
(***************************************************************************)
\* The number of entries of seq equal to m.
Count(seq, m) == Cardinality({k \in 1..Len(seq) : seq[k] = m})

\* The exit code the instance list, the expected version and the responses
\* determine.
ExpectedExit ==
    IF \E i \in 1..N :
           \/ Contains(instances[i], MismatchMarker)
           \/ RespDiffers(i)
           \/ RespLacksField(i)
    THEN 1
    ELSE 0

\* C19: at the exit of a run that dispatched, the messages read are, as a
\* multiset, the N messages that the instance list, the expected version and
\* the per-instance responses determine, and the exit code is the one they
\* determine: two terminating runs with the same inputs and responses agree
\* on both, whatever their interleavings.
C19_OutcomeIndependentOfSchedule ==
    (pc = "exit" /\ Dispatched) =>
        /\ Len(logged) = N
        /\ \A i \in 1..N :
              Count(logged, Messages(i)[1]) =
                  Cardinality({j \in 1..N : Messages(j)[1] = Messages(i)[1]})
        /\ exitCode = ExpectedExit

\* A run has exited 1 after reading the match message of the second instance
\* before the mismatch message of the first.
C19_Witness ==
    /\ pc = "exit"
    /\ N = 2
    /\ DOMAIN cpc = 1..N
    /\ RespDiffers(1)
    /\ RespMatches(2)
    /\ logged = Messages(2) \o Messages(1)
    /\ exitCode = 1

====
